---- MODULE Spec2Model ----
(***************************************************************************)
(* Christmas piano lights controller: a MIDI keyboard drives an 8-channel   *)
(* relay board through Raspberry Pi GPIO pins.  Two programs are modelled:  *)
(*   variant = "pygame"  src/piano_lights.py        (polling loop)          *)
(*   variant = "rtmidi"  src/piano_lights_rtmidi.py (callback on the        *)
(*                                                   transport's thread)    *)
(* The main thread walks main() -> __init__ -> run() -> cleanup(); in the   *)
(* rtmidi variant midi_callback runs on a second thread without any lock.   *)
(***************************************************************************)
EXTENDS Integers, Sequences, FiniteSets

VARIABLES
    variant,          \* which program is running
    input_available,  \* environment: a MIDI input device / port exists
    main_pc,          \* position of the main thread
    cleanup_i,        \* loop index i of cleanup()'s relay loop
    exc,              \* an Exception is propagating out of run()
    note_to_relay,    \* self.note_to_relay (dict note -> relay channel)
    active_notes,     \* self.active_notes
    running,          \* self.running
    gpio_setup,       \* pins are configured as outputs (between setup and GPIO.cleanup)
    gpio_level,       \* electrical level of every relay pin
    midi_input,       \* self.midi_input: "None", "created", "open", "closed"
    midi_lib,         \* pygame.midi library: "uninit", "init", "quit"
    midi_buffer,      \* pygame variant: messages waiting in the device buffer
    batch,            \* pygame variant: midi_events still to process in this poll
    cur,              \* the message the handler was last invoked with (<<>> = none yet)
    h_pc,             \* handler position: "idle", "set_relay", "raised", "aborted"
    pending,          \* arguments of the set_relay call the handler is about to make
    h_emitted,        \* set_relay calls made by the handler for cur
    pre_active,       \* active_notes when the handler was invoked with cur
    log,              \* every set_relay call made so far, in order: <<channel, state>>
    drain_start,      \* Len(log) when cleanup() began, -1 before
    delivered,        \* number of messages produced by the keyboard so far
    cleanup_calls,    \* number of times cleanup() has been entered
    twin_active,      \* side-by-side run: active_notes of the rtmidi controller
    twin_emitted      \* side-by-side run: its set_relay calls for cur

vars == <<variant, input_available, main_pc, cleanup_i, exc, note_to_relay,
          active_notes, running, gpio_setup, gpio_level, midi_input, midi_lib,
          midi_buffer, batch, cur, h_pc, pending, h_emitted, pre_active, log,
          drain_start, delivered, cleanup_calls, twin_active, twin_emitted>>

(***************************************************************************)
(* Bounds of the model                                                      *)
(***************************************************************************)
MaxMsgs == 3
MaxBuffer == 2
BurstLen == 12

(***************************************************************************)
(* Program constants                                                        *)
(***************************************************************************)
relay_pins == <<18, 19, 20, 21, 22, 23, 24, 25>>

ReadMax == 10

Pins == {relay_pins[i] : i \in 1 .. Len(relay_pins)}

\* a gap at note 35
octave_ranges_pygame_gap ==
    << <<21, 34>>, <<36, 47>>, <<48, 59>>, <<60, 71>>,
       <<72, 83>>, <<84, 95>>, <<96, 107>>, <<108, 108>> >>

octave_ranges_pygame ==
    << <<21, 34>>, <<35, 47>>, <<48, 59>>, <<60, 71>>,
       <<72, 83>>, <<84, 95>>, <<96, 107>>, <<108, 108>> >>

\* the top range runs one note past C8
octave_ranges_rtmidi_wide ==
    << <<21, 47>>, <<48, 53>>, <<54, 59>>, <<60, 65>>,
       <<66, 71>>, <<72, 77>>, <<78, 83>>, <<84, 109>> >>

octave_ranges_rtmidi ==
    << <<21, 47>>, <<48, 53>>, <<54, 59>>, <<60, 65>>,
       <<66, 71>>, <<72, 77>>, <<78, 83>>, <<84, 108>> >>

octave_ranges(v) == IF v = "pygame" THEN octave_ranges_pygame ELSE octave_ranges_rtmidi

(***************************************************************************)
(* Inputs: representative bytes of the MIDI alphabet                        *)
(***************************************************************************)
Notes == {20, 21, 34, 108, 109}

\* <<status, data1, data2>>: Note-Off 0x80, Note-On 0x90 with velocity 64 and
\* with velocity 0 for every note; the top of both status ranges (0x8F, 0x9F)
\* and a control change (0xB0) on data1 = 21
NoteMessages ==
    {<<128, n, 64>> : n \in Notes} \cup {<<144, n, 64>> : n \in Notes}
        \cup {<<144, n, 0>> : n \in Notes}
        \cup {<<143, 21, 64>>, <<159, 21, 64>>, <<159, 21, 0>>, <<176, 21, 64>>}

\* pygame.midi events carry data = [status, data1, data2, data3]
PygameEvents == {<<m[1], m[2], m[3], 0>> : m \in NoteMessages}

\* rtmidi messages are the raw bytes: three for the messages above, two for a
\* program change (0xC0)
RtmidiMessages == NoteMessages \cup {<<192, 5>>}

(***************************************************************************)
(* setup_note_mapping: the dict is filled range by range, a later range     *)
(* overwriting an earlier one on a shared note                              *)
(***************************************************************************)
RECURSIVE MapRanges(_, _, _)
MapRanges(ranges, i, acc) ==
    IF i > Len(ranges) THEN acc
    ELSE LET rng == ranges[i][1] .. ranges[i][2]
         IN  MapRanges(ranges, i + 1,
                       [n \in (DOMAIN acc) \cup rng |->
                            IF n \in rng THEN i - 1 ELSE acc[n]])

(***************************************************************************)
(* Message decoding (process_midi_events / midi_callback)                   *)
(***************************************************************************)
\* every status that is not a Note-On is taken for a Note-Off
Classify_catchall(status, velocity) ==
    IF 144 <= status /\ status <= 159
    THEN IF velocity = 0 THEN "off" ELSE "on"
    ELSE "off"

\* no normalisation of a zero-velocity Note-On
Classify_raw(status, velocity) ==
    IF 128 <= status /\ status <= 143 THEN "off"
    ELSE IF 144 <= status /\ status <= 159 THEN "on"
         ELSE "drop"

Classify(status, velocity) ==
    IF 128 <= status /\ status <= 143 THEN "off"
    ELSE IF 144 <= status /\ status <= 159
         THEN IF velocity = 0 THEN "off" ELSE "on"
         ELSE "drop"

\* pygame: velocity = data[2] if len(data) > 2 else 0
DecodePygame(data) ==
    [kind |-> Classify(data[1], IF Len(data) > 2 THEN data[3] ELSE 0),
     note |-> data[2],
     velocity |-> IF Len(data) > 2 THEN data[3] ELSE 0]

\* the length test is strict: three-byte messages are skipped
DecodeRtmidi_strict(message) ==
    IF Len(message) > 3
    THEN [kind |-> Classify(message[1], message[3]),
          note |-> message[2],
          velocity |-> message[3]]
    ELSE [kind |-> "drop", note |-> 0, velocity |-> 0]

\* rtmidi: only messages with len(message) >= 3 are looked at
DecodeRtmidi(message) ==
    IF Len(message) >= 3
    THEN [kind |-> Classify(message[1], message[3]),
          note |-> message[2],
          velocity |-> message[3]]
    ELSE [kind |-> "drop", note |-> 0, velocity |-> 0]

(***************************************************************************)
(* handle_note_on / handle_note_off                                         *)
(***************************************************************************)
NoteOnApplies(note, velocity, ntr) == note \in DOMAIN ntr /\ velocity > 0

\* the held set is not consulted
NoteOffApplies_untracked(note, ntr, active) == note \in DOMAIN ntr

NoteOffApplies(note, ntr, active) == note \in DOMAIN ntr /\ note \in active

\* the note is not recorded
ActiveAfterOn_forgotten(active, note) == active

ActiveAfterOn(active, note) == active \cup {note}

\* the note is not removed
ActiveAfterOff_kept(active, note) == active

ActiveAfterOff(active, note) == active \ {note}

\* the relay next to the note's own is switched
OnEmission_shifted(note, ntr) == <<(ntr[note] + 1) % 8, TRUE>>

OnEmission(note, ntr) == <<ntr[note], TRUE>>

\* the channel stays on while another of its notes is held
OffEmission_aggregate(note, ntr, active) ==
    <<ntr[note], \E b \in active \ {note} : ntr[b] = ntr[note]>>

OffEmission(note, ntr, active) == <<ntr[note], FALSE>>

\* The handler is invoked with message m decoded as d: it updates
\* active_notes and is then about to call set_relay, or it returns at once.
Apply(m, d) ==
    /\ cur' = m
    /\ pre_active' = active_notes
    /\ h_emitted' = << >>
    /\ IF d.kind = "on" /\ NoteOnApplies(d.note, d.velocity, note_to_relay)
       THEN /\ active_notes' = ActiveAfterOn(active_notes, d.note)
            /\ pending' = OnEmission(d.note, note_to_relay)
            /\ h_pc' = "set_relay"
       ELSE IF d.kind = "off" /\ NoteOffApplies(d.note, note_to_relay, active_notes)
       THEN /\ active_notes' = ActiveAfterOff(active_notes, d.note)
            /\ pending' = OffEmission(d.note, note_to_relay, active_notes)
            /\ h_pc' = "set_relay"
       ELSE /\ h_pc' = "idle"
            /\ UNCHANGED <<active_notes, pending>>

(***************************************************************************)
(* set_relay: GPIO.output(pin, LOW if state else HIGH) for a valid channel  *)
(***************************************************************************)
\* active-high polarity
PinLevel_inverted(state) == IF state THEN "HIGH" ELSE "LOW"

PinLevel(state) == IF state THEN "LOW" ELSE "HIGH"

\* the channel is not used to pick the pin
set_relay_first(relay_channel, state, ok) ==
    IF 0 <= relay_channel /\ relay_channel < Len(relay_pins)
    THEN /\ log' = Append(log, <<relay_channel, state>>)
         /\ gpio_level' = IF ok
                          THEN [gpio_level EXCEPT ![relay_pins[1]] = PinLevel(state)]
                          ELSE gpio_level
    ELSE UNCHANGED <<log, gpio_level>>

\* ok = FALSE: GPIO.output raises (pins not set up, or an injected I/O fault)
set_relay(relay_channel, state, ok) ==
    IF 0 <= relay_channel /\ relay_channel < Len(relay_pins)
    THEN /\ log' = Append(log, <<relay_channel, state>>)
         /\ gpio_level' = IF ok
                          THEN [gpio_level EXCEPT ![relay_pins[relay_channel + 1]] = PinLevel(state)]
                          ELSE gpio_level
    ELSE UNCHANGED <<log, gpio_level>>

(***************************************************************************)
(* Initial state: main() is about to construct the controller               *)
(***************************************************************************)
Init ==
    /\ variant \in {"pygame", "rtmidi"}
    /\ input_available \in BOOLEAN
    /\ main_pc = "setup_note_mapping"
    /\ cleanup_i = 0
    /\ exc = FALSE
    /\ note_to_relay = << >>
    /\ active_notes = {}
    /\ running = FALSE
    /\ gpio_setup = FALSE
    /\ gpio_level = [p \in Pins |-> "IN"]
    /\ midi_input = "None"
    /\ midi_lib = "uninit"
    /\ midi_buffer = << >>
    /\ batch = << >>
    /\ cur = << >>
    /\ h_pc = "idle"
    /\ pending = <<0, FALSE>>
    /\ h_emitted = << >>
    /\ pre_active = {}
    /\ log = << >>
    /\ drain_start = -1
    /\ delivered = 0
    /\ cleanup_calls = 0
    /\ twin_active = {}
    /\ twin_emitted = << >>

(***************************************************************************)
(* __init__                                                                 *)
(***************************************************************************)
setup_note_mapping ==
    /\ main_pc = "setup_note_mapping"
    /\ note_to_relay' = MapRanges(octave_ranges(variant), 1, << >>)
    /\ main_pc' = "setup_gpio"
    /\ UNCHANGED <<variant, input_available, cleanup_i, exc, active_notes, running,
                   gpio_setup, gpio_level, midi_input, midi_lib, midi_buffer, batch,
                   cur, h_pc, pending, h_emitted, pre_active, log, drain_start,
                   delivered,
                   cleanup_calls,
                   twin_active, twin_emitted>>

\* every relay pin becomes an output driven HIGH (relay off, active-low board)
setup_gpio ==
    /\ main_pc = "setup_gpio"
    /\ gpio_setup' = TRUE
    /\ gpio_level' = [p \in Pins |-> "HIGH"]
    /\ main_pc' = "setup_midi"
    /\ UNCHANGED <<variant, input_available, cleanup_i, exc, note_to_relay,
                   active_notes, running, midi_input, midi_lib, midi_buffer, batch,
                   cur, h_pc, pending, h_emitted, pre_active, log, drain_start,
                   delivered,
                   cleanup_calls,
                   twin_active, twin_emitted>>

\* pygame: init the library, open the first input device or raise.
\* rtmidi: create MidiIn, raise when there is no port, else open a port and
\* register midi_callback.
setup_midi ==
    /\ main_pc = "setup_midi"
    /\ midi_lib' = IF variant = "pygame" THEN "init" ELSE midi_lib
    /\ IF input_available
       THEN /\ midi_input' = "open"
            /\ main_pc' = "run"
       ELSE /\ midi_input' = IF variant = "rtmidi" THEN "created" ELSE midi_input
            /\ main_pc' = "main_except"
    /\ UNCHANGED <<variant, input_available, cleanup_i, exc, note_to_relay,
                   active_notes, running, gpio_setup, gpio_level, midi_buffer, batch,
                   cur, h_pc, pending, h_emitted, pre_active, log, drain_start,
                   delivered,
                   cleanup_calls,
                   twin_active, twin_emitted>>

(***************************************************************************)
(* run                                                                      *)
(***************************************************************************)
run ==
    /\ main_pc = "run"
    /\ running' = TRUE
    /\ main_pc' = "loop"
    /\ UNCHANGED <<variant, input_available, cleanup_i, exc, note_to_relay,
                   active_notes, gpio_setup, gpio_level, midi_input, midi_lib,
                   midi_buffer, batch, cur, h_pc, pending, h_emitted, pre_active,
                   log, drain_start, delivered,
                   cleanup_calls,
                   twin_active, twin_emitted>>

\* the keyboard sends a message; the pygame device buffers it until read
Arrive ==
    /\ variant = "pygame"
    /\ midi_input = "open"
    /\ delivered < MaxMsgs
    /\ Len(midi_buffer) < MaxBuffer
    /\ \E m \in PygameEvents : midi_buffer' = Append(midi_buffer, m)
    /\ delivered' = delivered + 1
    /\ UNCHANGED <<variant, input_available, main_pc, cleanup_i, exc, note_to_relay,
                   active_notes, running, gpio_setup, gpio_level, midi_input,
                   midi_lib, batch, cur, h_pc, pending, h_emitted, pre_active, log,
                   drain_start,
                   cleanup_calls,
                   twin_active, twin_emitted>>

\* the read empties the device buffer and keeps only the first ReadMax events
process_midi_events_flush ==
    /\ variant = "pygame"
    /\ main_pc = "loop"
    /\ running
    /\ IF midi_buffer # << >>
       THEN LET k == IF Len(midi_buffer) < ReadMax THEN Len(midi_buffer) ELSE ReadMax
            IN  /\ batch' = SubSeq(midi_buffer, 1, k)
                /\ midi_buffer' = << >>
                /\ main_pc' = "events"
       ELSE UNCHANGED <<batch, midi_buffer, main_pc>>
    /\ UNCHANGED <<variant, input_available, cleanup_i, exc, note_to_relay,
                   active_notes, running, gpio_setup, gpio_level, midi_input,
                   midi_lib, cur, h_pc, pending, h_emitted, pre_active, log,
                   drain_start, delivered, cleanup_calls, twin_active,
                   twin_emitted>>

\* process_midi_events, first half: if poll() then midi_events = read(10);
\* with nothing to read the loop sleeps and comes back here
process_midi_events ==
    /\ variant = "pygame"
    /\ main_pc = "loop"
    /\ running
    /\ IF midi_buffer # << >>
       THEN LET k == IF Len(midi_buffer) < ReadMax THEN Len(midi_buffer) ELSE ReadMax
            IN  /\ batch' = SubSeq(midi_buffer, 1, k)
                /\ midi_buffer' = SubSeq(midi_buffer, k + 1, Len(midi_buffer))
                /\ main_pc' = "events"
       ELSE UNCHANGED <<batch, midi_buffer, main_pc>>
    /\ UNCHANGED <<variant, input_available, cleanup_i, exc, note_to_relay,
                   active_notes, running, gpio_setup, gpio_level, midi_input,
                   midi_lib, cur, h_pc, pending, h_emitted, pre_active, log,
                   drain_start, delivered,
                   cleanup_calls,
                   twin_active, twin_emitted>>

\* process_midi_events, the for loop: decode the next event of the batch and
\* call its handler; after the last event sleep and go round the while loop
next_event ==
    /\ variant = "pygame"
    /\ main_pc = "events"
    /\ h_pc # "set_relay"
    /\ IF batch = << >>
       THEN /\ main_pc' = "loop"
            /\ UNCHANGED <<batch, cur, pre_active, h_emitted, active_notes,
                           pending, h_pc>>
       ELSE /\ Apply(Head(batch), DecodePygame(Head(batch)))
            /\ batch' = Tail(batch)
            /\ UNCHANGED main_pc
    /\ UNCHANGED <<variant, input_available, cleanup_i, exc, note_to_relay, running,
                   gpio_setup, gpio_level, midi_input, midi_lib, midi_buffer, log,
                   drain_start, delivered,
                   cleanup_calls,
                   twin_active, twin_emitted>>

\* rtmidi: the transport's thread calls midi_callback with the next message
midi_callback ==
    /\ variant = "rtmidi"
    /\ midi_input = "open"
    /\ main_pc # "exited"
    /\ h_pc # "set_relay"
    /\ delivered < MaxMsgs
    /\ \E m \in RtmidiMessages : Apply(m, DecodeRtmidi(m))
    /\ delivered' = delivered + 1
    /\ UNCHANGED <<variant, input_available, main_pc, cleanup_i, exc, note_to_relay,
                   running, gpio_setup, gpio_level, midi_input, midi_lib,
                   midi_buffer, batch, log, drain_start,
                   cleanup_calls,
                   twin_active, twin_emitted>>

\* the handler's set_relay call.  GPIO.output raises when the pins are no
\* longer set up (rtmidi variant, after cleanup's GPIO.cleanup) and the
\* exception ends the callback invocation.  In the pygame variant the write
\* may also fail with an I/O error (io_ok = FALSE); the exception then leaves
\* run() through its finally clause and reaches main's except.
handler_set_relay ==
    /\ h_pc = "set_relay"
    /\ variant = "pygame" => main_pc = "events"
    /\ variant = "rtmidi" => main_pc # "exited"
    /\ \E io_ok \in (IF variant = "pygame" THEN BOOLEAN ELSE {TRUE}) :
          LET ok == io_ok /\ gpio_setup
          IN  /\ set_relay(pending[1], pending[2], ok)
              /\ h_emitted' = Append(h_emitted, pending)
              /\ h_pc' = IF ok THEN "idle" ELSE "raised"
              /\ IF ~ok /\ variant = "pygame"
                 THEN /\ exc' = TRUE
                      /\ main_pc' = "cleanup"
                      /\ batch' = << >>
                 ELSE UNCHANGED <<exc, main_pc, batch>>
    /\ UNCHANGED <<variant, input_available, cleanup_i, note_to_relay, active_notes,
                   running, gpio_setup, midi_input, midi_lib, midi_buffer, cur,
                   pending, pre_active, drain_start, delivered,
                   cleanup_calls,
                   twin_active, twin_emitted>>

\* Ctrl+C while the main thread is inside run()'s try block; in the pygame
\* variant this may cut a handler short between its set update and its write
KeyboardInterrupt ==
    /\ main_pc \in {"loop", "events"}
    /\ main_pc' = "cleanup"
    /\ batch' = << >>
    /\ h_pc' = IF variant = "pygame" /\ h_pc = "set_relay" THEN "aborted" ELSE h_pc
    /\ UNCHANGED <<variant, input_available, cleanup_i, exc, note_to_relay,
                   active_notes, running, gpio_setup, gpio_level, midi_input,
                   midi_lib, midi_buffer, cur, pending, h_emitted, pre_active, log,
                   drain_start, delivered,
                   cleanup_calls,
                   twin_active, twin_emitted>>

(***************************************************************************)
(* cleanup                                                                  *)
(***************************************************************************)
cleanup_begin ==
    /\ main_pc = "cleanup"
    /\ running' = FALSE
    /\ cleanup_i' = 0
    /\ drain_start' = IF drain_start = -1 THEN Len(log) ELSE drain_start
    /\ cleanup_calls' = cleanup_calls + 1
    /\ main_pc' = "cleanup_relays"
    /\ UNCHANGED <<variant, input_available, exc, note_to_relay, active_notes,
                   gpio_setup, gpio_level, midi_input, midi_lib, midi_buffer, batch,
                   cur, h_pc, pending, h_emitted, pre_active, log, delivered,
                   twin_active, twin_emitted>>

\* for i in range(len(self.relay_pins)): self.set_relay(i, False)
\* GPIO.output raises when the pins are not set up; nothing in cleanup()
\* catches it, so the exception leaves cleanup() at once
cleanup_relays ==
    /\ main_pc = "cleanup_relays"
    /\ cleanup_i < Len(relay_pins)
    /\ set_relay(cleanup_i, FALSE, gpio_setup)
    /\ cleanup_i' = IF gpio_setup THEN cleanup_i + 1 ELSE cleanup_i
    /\ main_pc' = IF gpio_setup THEN main_pc ELSE "crashed"
    /\ UNCHANGED <<variant, input_available, exc, note_to_relay,
                   active_notes, running, gpio_setup, midi_input, midi_lib,
                   midi_buffer, batch, cur, h_pc, pending, h_emitted, pre_active,
                   drain_start, delivered,
                   cleanup_calls,
                   twin_active, twin_emitted>>

\* GPIO.cleanup(): every pin goes back to being an input
cleanup_gpio ==
    /\ main_pc = "cleanup_relays"
    /\ cleanup_i = Len(relay_pins)
    /\ gpio_setup' = FALSE
    /\ gpio_level' = [p \in Pins |-> "IN"]
    /\ main_pc' = "cleanup_midi"
    /\ UNCHANGED <<variant, input_available, cleanup_i, exc, note_to_relay,
                   active_notes, running, midi_input, midi_lib, midi_buffer, batch,
                   cur, h_pc, pending, h_emitted, pre_active, log, drain_start,
                   delivered,
                   cleanup_calls,
                   twin_active, twin_emitted>>

\* pygame: midi_input.close(); pygame.midi.quit().  rtmidi: close_port().
cleanup_midi ==
    /\ main_pc = "cleanup_midi"
    /\ midi_input' = IF midi_input # "None" THEN "closed" ELSE midi_input
    /\ midi_lib' = IF variant = "pygame" THEN "quit" ELSE midi_lib
    /\ main_pc' = IF exc THEN "main_except" ELSE "exited"
    /\ UNCHANGED <<variant, input_available, cleanup_i, exc, note_to_relay,
                   active_notes, running, gpio_setup, gpio_level, midi_buffer, batch,
                   cur, h_pc, pending, h_emitted, pre_active, log, drain_start,
                   delivered,
                   cleanup_calls,
                   twin_active, twin_emitted>>

\* a caller invokes cleanup() once more after it has completed
cleanup_again ==
    /\ main_pc = "exited"
    /\ cleanup_calls = 1
    /\ main_pc' = "cleanup"
    /\ UNCHANGED <<variant, input_available, cleanup_i, exc, note_to_relay,
                   active_notes, running, gpio_setup, gpio_level, midi_input,
                   midi_lib, midi_buffer, batch, cur, h_pc, pending, h_emitted,
                   pre_active, log, drain_start, delivered, cleanup_calls,
                   twin_active, twin_emitted>>

(***************************************************************************)
(* main's except Exception: GPIO.cleanup() (and pygame.midi.quit())         *)
(***************************************************************************)
main_except ==
    /\ main_pc = "main_except"
    /\ gpio_setup' = FALSE
    /\ gpio_level' = [p \in Pins |-> "IN"]
    /\ midi_lib' = IF variant = "pygame" THEN "quit" ELSE midi_lib
    /\ exc' = FALSE
    /\ main_pc' = "exited"
    /\ UNCHANGED <<variant, input_available, cleanup_i, note_to_relay, active_notes,
                   running, midi_input, midi_buffer, batch, cur, h_pc, pending,
                   h_emitted, pre_active, log, drain_start, delivered,
                   cleanup_calls,
                   twin_active, twin_emitted>>

Next ==
    \/ setup_note_mapping
    \/ setup_gpio
    \/ setup_midi
    \/ run
    \/ Arrive
    \/ process_midi_events
    \/ next_event
    \/ midi_callback
    \/ handler_set_relay
    \/ KeyboardInterrupt
    \/ cleanup_begin
    \/ cleanup_relays
    \/ cleanup_gpio
    \/ cleanup_midi
    \/ cleanup_again
    \/ main_except

Spec == Init /\ [][Next]_vars

(***************************************************************************)
(* The polling program under a burst: the keyboard sends up to BurstLen     *)
(* Note-On messages for note 21, the k-th with velocity k, at any pace, so  *)
(* more than ReadMax of them can be waiting at one poll.  The main thread   *)
(* is the only thread and keeps running, which is the fairness assumed.     *)
(***************************************************************************)
ArriveBurst ==
    /\ variant = "pygame"
    /\ midi_input = "open"
    /\ delivered < BurstLen
    /\ midi_buffer' = Append(midi_buffer, <<144, 21, delivered + 1, 0>>)
    /\ delivered' = delivered + 1
    /\ UNCHANGED <<variant, input_available, main_pc, cleanup_i, exc, note_to_relay,
                   active_notes, running, gpio_setup, gpio_level, midi_input,
                   midi_lib, batch, cur, h_pc, pending, h_emitted, pre_active, log,
                   drain_start, cleanup_calls, twin_active, twin_emitted>>

InitBurst == Init /\ variant = "pygame" /\ input_available

NextBurst ==
    \/ setup_note_mapping
    \/ setup_gpio
    \/ setup_midi
    \/ run
    \/ ArriveBurst
    \/ process_midi_events
    \/ next_event
    \/ handler_set_relay
    \/ KeyboardInterrupt
    \/ cleanup_begin
    \/ cleanup_relays
    \/ cleanup_gpio
    \/ cleanup_midi
    \/ main_except

FairSpecBurst ==
    /\ InitBurst
    /\ [][NextBurst]_vars
    /\ WF_vars(run)
    /\ WF_vars(process_midi_events)
    /\ WF_vars(next_event)
    /\ WF_vars(handler_set_relay)

(***************************************************************************)
(* The two programs side by side: one controller of each file, both         *)
(* constructed, each with its own mapping and its own active_notes, fed the *)
(* same three-byte messages one at a time (pygame wraps the bytes in its    *)
(* four-element data list).  Each handler runs to completion.               *)
(***************************************************************************)
PairNotes == {21, 34, 35, 48, 108, 109}

PairMessages ==
    {<<128, n, 64>> : n \in PairNotes} \cup {<<144, n, 64>> : n \in PairNotes}
        \cup {<<144, n, 0>> : n \in PairNotes} \cup {<<176, 21, 64>>}

\* what handle_note_on / handle_note_off do for the decoded message d
HandlerResult(d, ntr, active) ==
    IF d.kind = "on" /\ NoteOnApplies(d.note, d.velocity, ntr)
    THEN [active |-> ActiveAfterOn(active, d.note),
          emitted |-> << OnEmission(d.note, ntr) >>]
    ELSE IF d.kind = "off" /\ NoteOffApplies(d.note, ntr, active)
    THEN [active |-> ActiveAfterOff(active, d.note),
          emitted |-> << OffEmission(d.note, ntr, active) >>]
    ELSE [active |-> active, emitted |-> << >>]

InitPair ==
    /\ variant = "both"
    /\ input_available = TRUE
    /\ main_pc = "loop"
    /\ cleanup_i = 0
    /\ exc = FALSE
    /\ note_to_relay = MapRanges(octave_ranges_pygame, 1, << >>)
    /\ active_notes = {}
    /\ running = TRUE
    /\ gpio_setup = TRUE
    /\ gpio_level = [p \in Pins |-> "HIGH"]
    /\ midi_input = "open"
    /\ midi_lib = "init"
    /\ midi_buffer = << >>
    /\ batch = << >>
    /\ cur = << >>
    /\ h_pc = "idle"
    /\ pending = <<0, FALSE>>
    /\ h_emitted = << >>
    /\ pre_active = {}
    /\ log = << >>
    /\ drain_start = -1
    /\ delivered = 0
    /\ cleanup_calls = 0
    /\ twin_active = {}
    /\ twin_emitted = << >>

feed_both ==
    /\ variant = "both"
    /\ delivered < MaxMsgs
    /\ \E m \in PairMessages :
          LET rp == HandlerResult(DecodePygame(<<m[1], m[2], m[3], 0>>),
                                  note_to_relay, active_notes)
              rr == HandlerResult(DecodeRtmidi(m),
                                  MapRanges(octave_ranges_rtmidi, 1, << >>),
                                  twin_active)
          IN  /\ cur' = m
              /\ pre_active' = active_notes
              /\ active_notes' = rp.active
              /\ h_emitted' = rp.emitted
              /\ twin_active' = rr.active
              /\ twin_emitted' = rr.emitted
              /\ IF rp.emitted # << >>
                 THEN set_relay(rp.emitted[1][1], rp.emitted[1][2], TRUE)
                 ELSE UNCHANGED <<log, gpio_level>>
    /\ delivered' = delivered + 1
    /\ UNCHANGED <<variant, input_available, main_pc, cleanup_i, exc, note_to_relay,
                   running, gpio_setup, midi_input, midi_lib, midi_buffer, batch,
                   h_pc, pending, drain_start, cleanup_calls>>

NextPair == feed_both

SpecPair == InitPair /\ [][NextPair]_vars

(***************************************************************************)
(* The polling program alone: one thread, no callback                       *)
(***************************************************************************)
InitPygame == Init /\ variant = "pygame"

NextPygame ==
    \/ setup_note_mapping
    \/ setup_gpio
    \/ setup_midi
    \/ run
    \/ Arrive
    \/ process_midi_events
    \/ next_event
    \/ handler_set_relay
    \/ KeyboardInterrupt
    \/ cleanup_begin
    \/ cleanup_relays
    \/ cleanup_gpio
    \/ cleanup_midi
    \/ cleanup_again
    \/ main_except

SpecPygame == InitPygame /\ [][NextPygame]_vars

TypeOK ==
    /\ variant \in {"pygame", "rtmidi"}
    /\ active_notes \subseteq Notes
    /\ h_pc \in {"idle", "set_relay", "raised", "aborted"}
    /\ \A p \in Pins : gpio_level[p] \in {"IN", "HIGH", "LOW"}
    /\ delivered \in 0 .. MaxMsgs

(***************************************************************************)
(* Vocabulary of the properties                                             *)
(***************************************************************************)
\* the handler invoked with cur has returned or raised (it was not cut short)
Completed == cur # << >> /\ h_pc \in {"idle", "raised"}

CurIsNoteOff == Len(cur) >= 3 /\ 128 <= cur[1] /\ cur[1] <= 143

CurIsNoteOn == Len(cur) >= 3 /\ 144 <= cur[1] /\ cur[1] <= 159

Mapped(n) == n \in DOMAIN note_to_relay

MappingBuilt == main_pc # "setup_note_mapping"

\* the state most recently passed to set_relay for channel c (off after setup_gpio)
LastEmitted(c) ==
    LET idx == {i \in 1 .. Len(log) : log[i][1] = c}
    IN  IF idx = {} THEN FALSE
        ELSE log[CHOOSE i \in idx : \A j \in idx : j <= i][2]

\* set_relay calls made since cleanup() began
DrainEmissions == {log[i] : i \in (drain_start + 1) .. Len(log)}

(***************************************************************************)
(* C1: in both variants the table built by setup_note_mapping gives every   *)
(* note of 21..108 exactly one channel of 0..7, the channel of the one      *)
(* configured range holding it; the eight ranges are pairwise disjoint and  *)
(* their union is exactly 21..108.  (Stated of the table as                 *)
(* setup_note_mapping leaves it; no later step assigns note_to_relay.)      *)
(***************************************************************************)
C1_MappingPartition ==
    main_pc = "setup_gpio" =>
        LET r == octave_ranges(variant)
            rng(i) == r[i][1] .. r[i][2]
        IN  /\ Len(r) = 8
            /\ DOMAIN note_to_relay = 21 .. 108
            /\ \A n \in 21 .. 108 :
                  /\ note_to_relay[n] \in 0 .. 7
                  /\ {i \in 1 .. 8 : n \in rng(i)} = {note_to_relay[n] + 1}
            /\ \A i, j \in 1 .. 8 : i # j => rng(i) \cap rng(j) = {}
            /\ UNION {rng(i) : i \in 1 .. 8} = 21 .. 108

C1_Witness ==
    /\ main_pc = "setup_gpio"
    /\ variant = "rtmidi"
    /\ note_to_relay[47] = 0
    /\ note_to_relay[48] = 1
    /\ note_to_relay[108] = 7

(***************************************************************************)
(* C2: no note of 0..127 outside 21..108 has a channel, and a Note-On or    *)
(* Note-Off message for such a note makes no set_relay call and leaves      *)
(* active_notes as it was.                                                  *)
(***************************************************************************)
C2_UnmappedIgnored ==
    /\ MappingBuilt => \A n \in (0 .. 127) \ (21 .. 108) : ~Mapped(n)
    /\ ((CurIsNoteOn \/ CurIsNoteOff) /\ cur[2] \notin 21 .. 108) =>
          /\ h_pc = "idle"
          /\ h_emitted = << >>
          /\ active_notes = pre_active

C2_Witness ==
    /\ CurIsNoteOn
    /\ cur[2] = 109
    /\ cur[3] = 64
    /\ 108 \in active_notes
    /\ Completed

(***************************************************************************)
(* C3: a Note-On with velocity > 0 for a mapped note n leaves n in          *)
(* active_notes, adds nothing else, and makes exactly the one call          *)
(* set_relay(channelOf(n), True) - also when n was already held.            *)
(***************************************************************************)
C3_NoteOn ==
    (Completed /\ CurIsNoteOn /\ cur[3] > 0 /\ Mapped(cur[2])) =>
        /\ cur[2] \in active_notes
        /\ active_notes = pre_active \cup {cur[2]}
        /\ h_emitted = << <<note_to_relay[cur[2]], TRUE>> >>

\* the re-trigger case: the note was already held
C3_Witness ==
    /\ Completed
    /\ h_pc = "idle"
    /\ CurIsNoteOn
    /\ cur[3] > 0
    /\ cur[2] = 34
    /\ 34 \in pre_active
    /\ active_notes = pre_active
    /\ h_emitted = << <<0, TRUE>> >>

(***************************************************************************)
(* C4: a Note-Off for a mapped note n that is held removes n from           *)
(* active_notes and makes exactly the one call set_relay(channelOf(n),      *)
(* False); when n was the only held note and this is the second call ever,  *)
(* the calls so far are (channelOf(n), True), (channelOf(n), False) and     *)
(* active_notes is empty.                                                   *)
(***************************************************************************)
C4_NoteOff ==
    (Completed /\ CurIsNoteOff /\ Mapped(cur[2]) /\ cur[2] \in pre_active) =>
        /\ active_notes = pre_active \ {cur[2]}
        /\ h_emitted = << <<note_to_relay[cur[2]], FALSE>> >>
        /\ (pre_active = {cur[2]} /\ Len(log) = 2 /\ drain_start = -1) =>
              /\ log = << <<note_to_relay[cur[2]], TRUE>>,
                          <<note_to_relay[cur[2]], FALSE>> >>
              /\ active_notes = {}

C4_Witness ==
    /\ Completed
    /\ h_pc = "idle"
    /\ cur[1] = 128
    /\ cur[2] = 108
    /\ pre_active = {108}
    /\ active_notes = {}
    /\ log = << <<7, TRUE>>, <<7, FALSE>> >>

(***************************************************************************)
(* C5: a Note-Off for a note that is not held makes no set_relay call and   *)
(* leaves active_notes as it was.                                           *)
(***************************************************************************)
C5_NoteOffIdempotent ==
    (cur # << >> /\ CurIsNoteOff /\ cur[2] \notin pre_active) =>
        /\ h_pc = "idle"
        /\ h_emitted = << >>
        /\ active_notes = pre_active

\* a repeated Note-Off: the note was pressed and released before
C5_Witness ==
    /\ Completed
    /\ CurIsNoteOff
    /\ cur[2] = 21
    /\ pre_active = {}
    /\ log = << <<0, TRUE>>, <<0, FALSE>> >>
    /\ drain_start = -1

(***************************************************************************)
(* C6: a Note-On message with velocity 0 and a Note-Off message have the    *)
(* same outcome, a function of the note and the held set only: for a mapped *)
(* held note the note is removed and (channel, False) is emitted, otherwise *)
(* nothing changes.                                                         *)
(***************************************************************************)
C6_Normalization ==
    (Completed /\ (CurIsNoteOff \/ (CurIsNoteOn /\ cur[3] = 0))) =>
        IF Mapped(cur[2]) /\ cur[2] \in pre_active
        THEN /\ active_notes = pre_active \ {cur[2]}
             /\ h_emitted = << <<note_to_relay[cur[2]], FALSE>> >>
        ELSE /\ active_notes = pre_active
             /\ h_emitted = << >>

C6_Witness ==
    /\ Completed
    /\ CurIsNoteOn
    /\ cur[3] = 0
    /\ cur[2] \in pre_active
    /\ cur[2] \notin active_notes
    /\ h_emitted = << <<note_to_relay[cur[2]], FALSE>> >>

(***************************************************************************)
(* C7: last writer wins: a Note-Off for a held note a, while another held   *)
(* note b has the same channel c, emits (c, False) and leaves b held.       *)
(***************************************************************************)
C7_LastWriterWins ==
    (Completed /\ CurIsNoteOff /\ Mapped(cur[2]) /\ cur[2] \in pre_active) =>
        \A b \in pre_active \ {cur[2]} :
            note_to_relay[b] = note_to_relay[cur[2]] =>
                /\ h_emitted = << <<note_to_relay[b], FALSE>> >>
                /\ b \in active_notes

\* notes 21 and 34 of the octave mapping: relay 0 is off while 34 is held
C7_Witness ==
    /\ variant = "pygame"
    /\ Completed
    /\ h_pc = "idle"
    /\ CurIsNoteOff
    /\ cur[2] = 21
    /\ pre_active = {21, 34}
    /\ active_notes = {34}
    /\ LastEmitted(0) = FALSE
    /\ gpio_level[18] = "HIGH"
    /\ drain_start = -1

(***************************************************************************)
(* C8: once cleanup() has finished, (c, False) was emitted for each of the  *)
(* 8 channels since it began and active_notes is empty.                     *)
(***************************************************************************)
C8_ShutdownClears ==
    (main_pc = "exited" /\ drain_start >= 0) =>
        /\ \A c \in 0 .. 7 : <<c, FALSE>> \in DrainEmissions
        /\ active_notes = {}

(***************************************************************************)
(* C9: rtmidi variant: while cleanup() is under way no step changes         *)
(* active_notes, and no set_relay call is made once GPIO.cleanup() has run. *)
(***************************************************************************)
C9_MutualExclusion ==
    [][variant = "rtmidi" =>
          /\ main_pc \in {"cleanup_relays", "cleanup_midi"} =>
                active_notes' = active_notes
          /\ Len(log') > Len(log) => gpio_setup]_vars

(***************************************************************************)
(* C10: after cleanup() began every emission is (channel, False), the input *)
(* source is still open while the relays are being forced off, and when the *)
(* program has exited every channel's last emitted value is False.          *)
(***************************************************************************)
C10_ShutdownOrder ==
    drain_start >= 0 =>
        /\ \A e \in DrainEmissions : e[2] = FALSE
        /\ main_pc = "cleanup_relays" => midi_input = "open"
        /\ main_pc = "exited" => \A c \in 0 .. 7 : LastEmitted(c) = FALSE

(***************************************************************************)
(* C11: a second cleanup() after the first has completed raises no error    *)
(* and ends in the state the first call left: pins released, input closed.  *)
(***************************************************************************)
C11_CleanupIdempotent ==
    cleanup_calls = 2 =>
        /\ main_pc # "crashed"
        /\ main_pc = "exited" => (~gpio_setup /\ midi_input = "closed" /\ ~running)

(***************************************************************************)
(* C12: pygame variant: when the handler's relay write fails, active_notes  *)
(* is what a successful application would have left and the controller is   *)
(* still in its event loop, ready for the next message.                     *)
(***************************************************************************)
C12_WriteFailureRecoverable ==
    (variant = "pygame" /\ h_pc = "raised") =>
        /\ active_notes = IF pending[2] THEN pre_active \cup {cur[2]}
                          ELSE pre_active \ {cur[2]}
        /\ main_pc \in {"loop", "events"}
        /\ ~exc

(***************************************************************************)
(* C13: when setup_midi finds no input device the program exits without     *)
(* ever handling a message; the relay pins were driven off before they were *)
(* released, and at exit the GPIO pins, the pygame.midi library and the     *)
(* MidiIn handle have all been released.                                    *)
(***************************************************************************)
C13_NoDeviceReleasesAll ==
    ~input_available =>
        /\ cur = << >> /\ log = << >> /\ active_notes = {}
        /\ main_pc = "main_except" => \A p \in Pins : gpio_level[p] = "HIGH"
        /\ main_pc = "exited" =>
              /\ ~gpio_setup
              /\ midi_lib \in {"uninit", "quit"}
              /\ midi_input \in {"None", "closed"}

(***************************************************************************)
(* C14: a message whose status byte is outside 0x80..0x9F is dropped: the   *)
(* handler makes no set_relay call, leaves active_notes as it was and       *)
(* raises nothing.                                                          *)
(***************************************************************************)
C14_OtherStatusDropped ==
    (cur # << >> /\ (cur[1] < 128 \/ cur[1] > 159)) =>
        /\ h_pc = "idle"
        /\ ~exc
        /\ h_emitted = << >>
        /\ active_notes = pre_active

\* a control change whose data1 is the number of a held note
C14_Witness ==
    /\ Completed
    /\ cur[1] = 176
    /\ cur[2] = 21
    /\ 21 \in active_notes
    /\ drain_start = -1

(***************************************************************************)
(* C16: before shutdown, a step that decodes a message finds no relay write *)
(* pending and makes none; the only steps that extend the log are the       *)
(* handler's write for the current message, which appends exactly           *)
(* (channelOf(note), on/off of that message), at most once per message.     *)
(* Hence the log is the in-order image of the messages that emit.           *)
(***************************************************************************)
NewMessageStep ==
    \/ variant = "pygame" /\ main_pc = "events" /\ main_pc' = "events"
          /\ Len(batch') < Len(batch)
    \/ variant = "rtmidi" /\ delivered' = delivered + 1

C16_SyncOrdered ==
    [][drain_start' = -1 =>
          /\ NewMessageStep => (h_pc # "set_relay" /\ log' = log /\ h_emitted' = << >>)
          /\ log' # log =>
                /\ ~NewMessageStep
                /\ h_pc = "set_relay" /\ h_pc' \in {"idle", "raised"}
                /\ cur' = cur
                /\ h_emitted = << >>
                /\ h_emitted' = << <<note_to_relay[cur[2]], CurIsNoteOn /\ cur[3] > 0>> >>
                /\ log' = Append(log, h_emitted'[1])]_vars

C16_Witness ==
    /\ Completed
    /\ drain_start = -1
    /\ cur[2] = 108
    /\ h_emitted = << <<7, TRUE>> >>
    /\ log = << <<0, TRUE>>, <<0, FALSE>>, <<7, TRUE>> >>

(***************************************************************************)
(* C18: after setup_gpio every relay is off and active_notes is empty; and  *)
(* until cleanup() begins, between messages (no handler is part-way through *)
(* a message, cut short, or failed in its write), a relay that is on (its   *)
(* pin LOW, or True the last value passed to set_relay) has at least one    *)
(* note of its range in active_notes.                                       *)
(***************************************************************************)
Energized(c) == gpio_level[relay_pins[c + 1]] = "LOW"

C18_OnImpliesHeld ==
    /\ main_pc = "setup_midi" =>
          /\ \A p \in Pins : gpio_level[p] = "HIGH"
          /\ active_notes = {}
          /\ log = << >>
    /\ (gpio_setup /\ drain_start = -1 /\ h_pc = "idle") =>
          \A c \in 0 .. 7 :
              (Energized(c) \/ LastEmitted(c)) =>
                  \E n \in active_notes : note_to_relay[n] = c

C18_Witness ==
    /\ drain_start = -1
    /\ h_pc = "idle"
    /\ Energized(0)
    /\ active_notes = {34}
    /\ log = << <<0, TRUE>>, <<0, FALSE>>, <<0, TRUE>> >>

(***************************************************************************)
(* C19: handling a message about note n changes the membership of no note   *)
(* other than n, calls set_relay for no channel other than channelOf(n),    *)
(* and the handler's write changes the level of no other channel's pin;     *)
(* active_notes holds mapped notes (21..108) only.                          *)
(***************************************************************************)
C19_Frame ==
    /\ [](/\ active_notes \subseteq 21 .. 108
          /\ cur # << >> =>
                /\ \A n \in (active_notes \cup pre_active) \ {cur[2]} :
                       n \in active_notes /\ n \in pre_active
                /\ \A i \in 1 .. Len(h_emitted) :
                       h_emitted[i][1] = note_to_relay[cur[2]])
    /\ [][(h_pc = "set_relay" /\ h_pc' \in {"idle", "raised"}) =>
             \A c \in 0 .. 7 :
                 c # note_to_relay[cur[2]] =>
                     gpio_level'[relay_pins[c + 1]] = gpio_level[relay_pins[c + 1]]]_vars

C19_Witness ==
    /\ Completed
    /\ drain_start = -1
    /\ cur[2] = 108
    /\ pre_active = {21}
    /\ active_notes = {21, 108}
    /\ Energized(0)
    /\ Energized(7)

(***************************************************************************)
(* C15 as stated: fed the same messages, the two programs make the same     *)
(* set_relay calls and hold the same active_notes after every message.      *)
(***************************************************************************)
C15_Identical ==
    /\ twin_active = active_notes
    /\ twin_emitted = h_emitted

(***************************************************************************)
(* C15 as amended: fed the same messages, the two programs hold the same    *)
(* active_notes after every message and make a set_relay call for the same  *)
(* messages with the same on/off value; the channel of the call is each     *)
(* program's own channelOf(note), and the two configured mappings differ.   *)
(***************************************************************************)
C15_SameTracking ==
    /\ twin_active = active_notes
    /\ Len(twin_emitted) = Len(h_emitted)
    /\ \A i \in 1 .. Len(h_emitted) :
          /\ twin_emitted[i][2] = h_emitted[i][2]
          /\ h_emitted[i][1] = note_to_relay[cur[2]]
          /\ twin_emitted[i][1] = MapRanges(octave_ranges_rtmidi, 1, << >>)[cur[2]]

\* note 35: relay 1 in piano_lights.py, relay 0 in piano_lights_rtmidi.py
C15_Witness ==
    /\ cur = <<144, 35, 64>>
    /\ 35 \in active_notes
    /\ 35 \in twin_active
    /\ h_emitted = << <<1, TRUE>> >>
    /\ twin_emitted = << <<0, TRUE>> >>

(***************************************************************************)
(* C17: polling variant: messages are applied strictly in arrival order     *)
(* (the k-th message applied is the k-th that arrived), and every message   *)
(* that has arrived is eventually applied unless the controller has left    *)
(* its loop - also when more than 10 are waiting and several polls are      *)
(* needed.                                                                  *)
(***************************************************************************)
ControllerRunning == main_pc \in {"run", "loop", "events"}

AppliedCount == IF cur = << >> THEN 0 ELSE cur[3]

C17_AllAppliedInOrder ==
    /\ [][cur' # cur => cur' = <<144, 21, AppliedCount + 1, 0>>]_vars
    /\ \A k \in 1 .. BurstLen :
          (delivered >= k) ~> (AppliedCount >= k \/ ~ControllerRunning)

\* the 11th message of a burst is applied while the 12th waits in the batch:
\* the second read took what the first read(10) left behind
C17_Witness ==
    /\ ControllerRunning
    /\ h_pc = "idle"
    /\ cur = <<144, 21, 11, 0>>
    /\ batch = << <<144, 21, 12, 0>> >>
    /\ Len(log) = 11

====
